---- MODULE Spec2Model ----
(***************************************************************************)
(* Model of comm_mkdupc.py: the DUPC packet builder                        *)
(* (encode_command_packet) and the payload resolver (get_known_payload).   *)
(* Bytes are naturals 0..255, buffers are sequences of bytes, ctypes       *)
(* structures are records of their fields.                                 *)
(***************************************************************************)
EXTENDS Integers, Sequences, FiniteSets, TLC

VARIABLES args, pc, status, enc_data, pkthead, payload, known

vars == <<args, pc, status, enc_data, pkthead, payload, known>>

(***************************************************************************)
(* Bounds of the input space.                                              *)
(***************************************************************************)
\* sender_index / receiver_index are drawn from 0..MaxIndex (3-bit field).
MaxIndex == 15
\* sender_type / receiver_type are drawn from a set reaching 31 + MaxTypeOver.
MaxTypeOver == 2
\* pack_type 0..MaxPack (1 bit), ack_type 0..MaxAck (2 bits),
\* encrypt_type 0..MaxEnc (3 bits).
MaxPack == 3
MaxAck == 4
MaxEnc == 9
\* type_id of the parameter definition payloads ranges over 0..MaxTag (and a
\* few 16-bit values above 255).
MaxTag == 11
\* payload lengths go up to MaxOver bytes past the last length whose packet
\* fits the 10-bit length field.
MaxOver == 3

(***************************************************************************)
(* Program constants.                                                      *)
(***************************************************************************)
SOF == 85
PROTOCOL_VERSION == 1
HDR_CRC_SEED == 119
FOOTER_SIZE == 2
DJIPayload_FlyController_ParamMaxLen == 160
CMD_SET_GENERAL == 0
CMD_SET_CAMERA == 2
CMD_SET_FLYCONTROLLER == 3
DEV_TYPE_PC == 10

(***************************************************************************)
(* Integer arithmetic of the Python expressions.                           *)
(***************************************************************************)
RECURSIVE BitAnd(_, _)
BitAnd(a, b) ==
    IF a = 0 \/ b = 0 THEN 0
    ELSE (a % 2) * (b % 2) + 2 * BitAnd(a \div 2, b \div 2)

RECURSIVE BitOr(_, _)
BitOr(a, b) ==
    IF a = 0 THEN b
    ELSE IF b = 0 THEN a
    ELSE (IF (a % 2) + (b % 2) > 0 THEN 1 ELSE 0) + 2 * BitOr(a \div 2, b \div 2)

Shl(a, n) == a * 2^n
Shr(a, n) == a \div 2^n

\* ctypes stores an integer into a c_ubyte / c_ushort field without a range
\* check: the value is reduced to the field's width.
c_ubyte(v) == v % 256
c_ushort(v) == v % 65536

Take(s, n) == SubSeq(s, 1, IF n < Len(s) THEN n ELSE Len(s))

(***************************************************************************)
(* DJICmdV1Header: a packed little-endian structure of 11 bytes.           *)
(***************************************************************************)
StructBytes(h) ==
    << h.sof,
       h.ver_length_tag % 256, h.ver_length_tag \div 256,
       h.header_crc8,
       h.sender_info,
       h.receiver_info,
       h.seq_num % 256, h.seq_num \div 256,
       h.cmd_type_data,
       h.cmd_set,
       h.cmd_id >>

\* sizeof(DJICmdV1Header)
sizeof_DJICmdV1Header == Len(StructBytes([sof |-> 0, ver_length_tag |-> 0,
    header_crc8 |-> 0, sender_info |-> 0, receiver_info |-> 0, seq_num |-> 0,
    cmd_type_data |-> 0, cmd_set |-> 0, cmd_id |-> 0]))

\* DJICmdV1Header.from_buffer_copy(b)
HeaderFromBytes(b) ==
    [ sof            |-> b[1],
      ver_length_tag |-> b[2] + 256 * b[3],
      header_crc8    |-> b[4],
      sender_info    |-> b[5],
      receiver_info  |-> b[6],
      seq_num        |-> b[7] + 256 * b[8],
      cmd_type_data  |-> b[9],
      cmd_set        |-> b[10],
      cmd_id         |-> b[11] ]

get_whole_length(h) == BitAnd(h.ver_length_tag, 1023)

set_whole_length(h, value) ==
    [h EXCEPT !.ver_length_tag =
        c_ushort(BitOr(BitAnd(h.ver_length_tag, 64512), BitAnd(value, 1023)))]

get_version(h) == Shr(BitAnd(h.ver_length_tag, 64512), 10)

set_version(h, value) ==
    [h EXCEPT !.ver_length_tag =
        c_ushort(BitOr(BitAnd(h.ver_length_tag, 1023), Shl(BitAnd(value, 63), 10)))]

get_sender_type(h) == BitAnd(h.sender_info, 31)

set_sender_type(h, value) ==
    [h EXCEPT !.sender_info =
        c_ubyte(BitOr(BitAnd(h.sender_info, 224), BitAnd(value, 31)))]

get_sender_index(h) == Shr(BitAnd(h.sender_info, 224), 5)

\* Mutant: the index taken as a 4-bit field in bits 7..4.
set_sender_index_wide(h, value) ==
    [h EXCEPT !.sender_info =
        c_ubyte(BitOr(BitAnd(h.sender_info, 31), Shl(BitAnd(value, 15), 4)))]

set_sender_index(h, value) ==
    [h EXCEPT !.sender_info =
        c_ubyte(BitOr(BitAnd(h.sender_info, 31), Shl(BitAnd(value, 7), 5)))]

get_receiver_type(h) == BitAnd(h.receiver_info, 31)

set_receiver_type(h, value) ==
    [h EXCEPT !.receiver_info =
        c_ubyte(BitOr(BitAnd(h.receiver_info, 224), BitAnd(value, 31)))]

\* Mutant: the masked bits returned without the shift.
get_receiver_index_noshift(h) == BitAnd(h.receiver_info, 224)

get_receiver_index(h) == Shr(BitAnd(h.receiver_info, 224), 5)

set_receiver_index(h, value) ==
    [h EXCEPT !.receiver_info =
        c_ubyte(BitOr(BitAnd(h.receiver_info, 31), Shl(BitAnd(value, 7), 5)))]

\* Mutant: the shift stops at the acknowledgement bits.
get_packet_type_with_ack(h) == Shr(h.cmd_type_data, 5)

get_packet_type(h) == Shr(h.cmd_type_data, 7)

set_packet_type(h, value) ==
    [h EXCEPT !.cmd_type_data =
        c_ubyte(BitOr(BitAnd(h.cmd_type_data, 127), Shl(BitAnd(value, 1), 7)))]

get_ack_type(h) == BitAnd(Shr(h.cmd_type_data, 5), 3)

\* Mutant: the acknowledgement type placed one bit too low and one bit too wide.
set_ack_type_wide(h, value) ==
    [h EXCEPT !.cmd_type_data =
        c_ubyte(BitOr(BitAnd(h.cmd_type_data, 159), Shl(BitAnd(value, 7), 4)))]

set_ack_type(h, value) ==
    [h EXCEPT !.cmd_type_data =
        c_ubyte(BitOr(BitAnd(h.cmd_type_data, 159), Shl(BitAnd(value, 3), 5)))]

get_encrypt_type(h) == BitAnd(h.cmd_type_data, 7)

set_encrypt_type(h, value) ==
    [h EXCEPT !.cmd_type_data =
        c_ubyte(BitOr(BitAnd(h.cmd_type_data, 248), BitAnd(value, 7)))]

\* DJICmdV1Header(): ctypes zero-fills the structure, then __init__ runs.
DJICmdV1Header ==
    LET zero == [ sof |-> 0, ver_length_tag |-> 0, header_crc8 |-> 0,
                  sender_info |-> 0, receiver_info |-> 0, seq_num |-> 0,
                  cmd_type_data |-> 0, cmd_set |-> 0, cmd_id |-> 0 ]
        h1 == [zero EXCEPT !.sof = c_ubyte(SOF)]
        h2 == set_version(h1, PROTOCOL_VERSION)
    IN  set_whole_length(h2, sizeof_DJICmdV1Header + FOOTER_SIZE)

(***************************************************************************)
(* The checksum collaborator (comm_dat2pcap): two deterministic functions  *)
(* of a seed and the first plength bytes of a buffer.  Only that contract  *)
(* is used; the fold below stands for the table-driven algorithm.          *)
(***************************************************************************)
\* One byte folded into the running value, and the bytes lo..hi in order
\* (ranges are halved, and the left half is
\* evaluated before the right one starts, to keep the recursion shallow).
Step8(v, b) == (v * 31 + b + 7) % 256

RECURSIVE Fold8(_, _, _, _)
Fold8(v, packet, lo, hi) ==
    IF lo > hi THEN v
    ELSE IF lo = hi THEN Step8(v, packet[lo])
    ELSE LET mid  == (lo + hi) \div 2
             left == Fold8(v, packet, lo, mid)
         IN  IF left >= 0 THEN Fold8(left, packet, mid + 1, hi) ELSE left

calc_pkt55_hdr_checksum(seed, packet, plength) == Fold8(seed, packet, 1, plength)

Step16(v, b) == (v * 257 + b + 1) % 65536

RECURSIVE Fold16(_, _, _, _)
Fold16(v, packet, lo, hi) ==
    IF lo > hi THEN v
    ELSE IF lo = hi THEN Step16(v, packet[lo])
    ELSE LET mid  == (lo + hi) \div 2
             left == Fold16(v, packet, lo, mid)
         IN  IF left >= 0 THEN Fold16(left, packet, mid + 1, hi) ELSE left

calc_pkt55_checksum(packet, plength) == Fold16(13970, packet, 1, plength)

(***************************************************************************)
(* encode_command_packet                                                   *)
(***************************************************************************)
\* Mutant: the footer is not counted.
PacketLength_nofooter(pl) == sizeof_DJICmdV1Header + Len(pl)

\* sizeof(pkthead) + len(payload) + 2
PacketLength(pl) == sizeof_DJICmdV1Header + Len(pl) + FOOTER_SIZE

\* Mutant: the header checksum also covers its own byte.
HeaderCrcCount_own == 3 + 1

\* (c_ubyte * 3).from_buffer_copy(pkthead), 3
HeaderCrcCount == 3

\* The header as it is after the assignments of encode_command_packet, in
\* their order: length, header checksum, then the routing and command fields.
BuildHeader(a) ==
    LET h0  == DJICmdV1Header
        h1  == set_whole_length(h0, PacketLength(a.payload))
        h2  == [h1 EXCEPT !.header_crc8 =
                   c_ubyte(calc_pkt55_hdr_checksum(HDR_CRC_SEED,
                       Take(StructBytes(h1), HeaderCrcCount), HeaderCrcCount))]
        h3  == set_sender_type(h2, a.sender_type)
        h4  == set_sender_index(h3, a.sender_index)
        h5  == set_receiver_type(h4, a.receiver_type)
        h6  == set_receiver_index(h5, a.receiver_index)
        h7  == [h6 EXCEPT !.seq_num = c_ushort(a.seq_num)]
        h8  == set_packet_type(h7, a.pack_type)
        h9  == set_ack_type(h8, a.ack_type)
        h10 == set_encrypt_type(h9, a.encrypt_type)
        h11 == [h10 EXCEPT !.cmd_set = c_ubyte(a.cmd_set)]
    IN  [h11 EXCEPT !.cmd_id = c_ubyte(a.cmd_id)]

\* The number of bytes the whole-packet checksum is computed over.
FooterCrcCount(size) == size - FOOTER_SIZE

\* The three memmoves into enc_data = (c_ubyte * pkthead.whole_length)(), as
\* far as they land inside the array: the header at 0, the payload after it,
\* the footer after the payload.
EncodedBuffer(a) ==
    LET h       == BuildHeader(a)
        size    == get_whole_length(h)
        image   == StructBytes(h) \o a.payload
        filled  == [i \in 1..size |-> IF i <= Len(image) THEN image[i] ELSE 0]
        crc16   == c_ushort(calc_pkt55_checksum(filled, FooterCrcCount(size)))
        foot    == << crc16 % 256, crc16 \div 256 >>
        footAt  == sizeof_DJICmdV1Header + Len(a.payload)
    IN  [i \in 1..size |->
            IF i > footAt /\ i <= footAt + FOOTER_SIZE THEN foot[i - footAt]
            ELSE filled[i]]

\* Every memmove stays inside enc_data exactly when the 10-bit whole_length
\* holds the full packet length.
WritesInBounds(a) == get_whole_length(BuildHeader(a)) >= PacketLength(a.payload)

\* The outcomes of a call.  A memmove past the end of enc_data is undefined
\* behaviour: the interpreter either survives it and returns the array, or
\* faults.
encode_command_packet(a) ==
    IF WritesInBounds(a)
    THEN { [status |-> "ok", enc_data |-> EncodedBuffer(a)] }
    ELSE { [status |-> "ok", enc_data |-> EncodedBuffer(a)],
           [status |-> "fault", enc_data |-> << >>] }

(***************************************************************************)
(* ctypes field types of the payload structures.  The model checker's      *)
(* integers are 32 bits wide and signed, so an unsigned 32-bit value is    *)
(* kept as its two 16-bit halves; c_int values fit and are integers; a     *)
(* c_float is kept as the sign, exponent and fraction that determine it.   *)
(***************************************************************************)
LE16(b, off) == b[off + 1] + 256 * b[off + 2]

c_uint(b, off) == [hi |-> LE16(b, off + 2), lo |-> LE16(b, off)]

c_int(b, off) ==
    LET hi == LE16(b, off + 2)
        lo == LE16(b, off)
    IN  IF hi >= 32768 THEN (hi - 65536) * 65536 + lo ELSE hi * 65536 + lo

c_float(b, off) ==
    LET hi == LE16(b, off + 2)
        lo == LE16(b, off)
    IN  [ sign     |-> hi \div 32768,
          exponent |-> (hi \div 128) % 256,
          fraction |-> (hi % 128) * 65536 + lo ]

\* Reading a c_char array field gives the bytes before the first NUL.
RECURSIVE NulTruncated(_)
NulTruncated(s) ==
    IF s = << >> \/ Head(s) = 0 THEN << >>
    ELSE << Head(s) >> \o NulTruncated(Tail(s))

c_char_array(b, off, n) == NulTruncated(SubSeq(b, off + 1, off + n))

\* bytes.ljust(width, b'\0')
ljust(b, width) ==
    IF Len(b) >= width THEN b
    ELSE b \o [i \in 1..(width - Len(b)) |-> 0]

(***************************************************************************)
(* The payload structures; X(b) is X.from_buffer_copy(b), which reads the  *)
(* first sizeof(X) bytes of b.                                             *)
(***************************************************************************)
sizeof_VersionInquiryRe == 1 + 1 + 16 + 4 + 4 + 4 + 1

DJIPayload_General_VersionInquiryRe(b) ==
    [ kind        |-> "DJIPayload_General_VersionInquiryRe",
      unknown0    |-> b[1],
      unknown1    |-> b[2],
      hw_version  |-> c_char_array(b, 2, 16),
      ldr_version |-> c_uint(b, 18),
      app_version |-> c_uint(b, 22),
      unknown1A   |-> c_uint(b, 26),
      unknown1E   |-> b[31] ]

sizeof_ChipRebootRe == 1

DJIPayload_General_ChipRebootRe(b) ==
    [ kind   |-> "DJIPayload_General_ChipRebootRe",
      status |-> b[1] ]

sizeof_GetParamDefinition2015Rq == 2

DJIPayload_FlyController_GetParamDefinition2015Rq(b) ==
    [ kind        |-> "DJIPayload_FlyController_GetParamDefinition2015Rq",
      param_index |-> LE16(b, 0) ]

sizeof_GetParamDefinitionEOL2015Re == 1

DJIPayload_FlyController_GetParamDefinitionEOL2015Re(b) ==
    [ kind   |-> "DJIPayload_FlyController_GetParamDefinitionEOL2015Re",
      status |-> b[1] ]

sizeof_GetParamDefinition2015Re ==
    1 + 2 + 2 + 2 + 4 + 4 + 4 + DJIPayload_FlyController_ParamMaxLen

DJIPayload_FlyController_GetParamDefinitionU2015Re(b) ==
    [ kind      |-> "DJIPayload_FlyController_GetParamDefinitionU2015Re",
      status    |-> b[1],
      type_id   |-> LE16(b, 1),
      size      |-> LE16(b, 3),
      attribute |-> LE16(b, 5),
      limit_min |-> c_uint(b, 7),
      limit_max |-> c_uint(b, 11),
      limit_def |-> c_uint(b, 15),
      name      |-> c_char_array(b, 19, DJIPayload_FlyController_ParamMaxLen) ]

DJIPayload_FlyController_GetParamDefinitionI2015Re(b) ==
    [ kind      |-> "DJIPayload_FlyController_GetParamDefinitionI2015Re",
      status    |-> b[1],
      type_id   |-> LE16(b, 1),
      size      |-> LE16(b, 3),
      attribute |-> LE16(b, 5),
      limit_min |-> c_int(b, 7),
      limit_max |-> c_int(b, 11),
      limit_def |-> c_int(b, 15),
      name      |-> c_char_array(b, 19, DJIPayload_FlyController_ParamMaxLen) ]

DJIPayload_FlyController_GetParamDefinitionF2015Re(b) ==
    [ kind      |-> "DJIPayload_FlyController_GetParamDefinitionF2015Re",
      status    |-> b[1],
      type_id   |-> LE16(b, 1),
      size      |-> LE16(b, 3),
      attribute |-> LE16(b, 5),
      limit_min |-> c_float(b, 7),
      limit_max |-> c_float(b, 11),
      limit_def |-> c_float(b, 15),
      name      |-> c_char_array(b, 19, DJIPayload_FlyController_ParamMaxLen) ]

\* Python's None
None == [kind |-> "None"]

(***************************************************************************)
(* get_known_payload                                                       *)
(***************************************************************************)
\* Mutant: the "+ 1" (one byte of name) is dropped.
ParamDefinitionMinLen_noname ==
    sizeof_GetParamDefinition2015Re - DJIPayload_FlyController_ParamMaxLen

\* The least payload length parsed as a full parameter definition:
\* sizeof(...U2015Re) - DJIPayload_FlyController_ParamMaxLen + 1
ParamDefinitionMinLen ==
    sizeof_GetParamDefinition2015Re - DJIPayload_FlyController_ParamMaxLen + 1

\* Mutant: type tag 8 is taken for an integer type.
GetParamDefinitionRe_tag8(pl) ==
    IF Len(pl) >= ParamDefinitionMinLen
    THEN LET out_payload == DJIPayload_FlyController_GetParamDefinitionU2015Re(
                                ljust(pl, sizeof_GetParamDefinition2015Re))
         IN  IF out_payload.type_id >= 4 /\ out_payload.type_id <= 8
             THEN DJIPayload_FlyController_GetParamDefinitionI2015Re(
                      ljust(pl, sizeof_GetParamDefinition2015Re))
             ELSE IF out_payload.type_id = 8 \/ out_payload.type_id = 9
             THEN DJIPayload_FlyController_GetParamDefinitionF2015Re(
                      ljust(pl, sizeof_GetParamDefinition2015Re))
             ELSE out_payload
    ELSE IF Len(pl) >= sizeof_GetParamDefinitionEOL2015Re
    THEN DJIPayload_FlyController_GetParamDefinitionEOL2015Re(pl)
    ELSE None

\* The branch of (FLYCONTROLLER, response, 0xf0).
GetParamDefinitionRe(pl) ==
    IF Len(pl) >= ParamDefinitionMinLen
    THEN LET out_payload == DJIPayload_FlyController_GetParamDefinitionU2015Re(
                                ljust(pl, sizeof_GetParamDefinition2015Re))
         IN  IF out_payload.type_id >= 4 /\ out_payload.type_id <= 7
             THEN DJIPayload_FlyController_GetParamDefinitionI2015Re(
                      ljust(pl, sizeof_GetParamDefinition2015Re))
             ELSE IF out_payload.type_id = 8 \/ out_payload.type_id = 9
             THEN DJIPayload_FlyController_GetParamDefinitionF2015Re(
                      ljust(pl, sizeof_GetParamDefinition2015Re))
             ELSE out_payload
    ELSE IF Len(pl) >= sizeof_GetParamDefinitionEOL2015Re
    THEN DJIPayload_FlyController_GetParamDefinitionEOL2015Re(pl)
    ELSE None

get_known_payload(h, pl) ==
    IF /\ h.cmd_set = CMD_SET_GENERAL /\ get_packet_type(h) = 1
       /\ h.cmd_id = 1 /\ Len(pl) >= sizeof_VersionInquiryRe
    THEN DJIPayload_General_VersionInquiryRe(pl)
    ELSE IF /\ h.cmd_set = CMD_SET_GENERAL /\ get_packet_type(h) = 1
            /\ h.cmd_id = 11 /\ Len(pl) >= sizeof_ChipRebootRe
    THEN DJIPayload_General_ChipRebootRe(pl)
    ELSE IF /\ h.cmd_set = CMD_SET_FLYCONTROLLER /\ get_packet_type(h) = 0
            /\ h.cmd_id = 240 /\ Len(pl) >= sizeof_GetParamDefinition2015Rq
    THEN DJIPayload_FlyController_GetParamDefinition2015Rq(pl)
    ELSE IF /\ h.cmd_set = CMD_SET_FLYCONTROLLER /\ get_packet_type(h) = 1
            /\ h.cmd_id = 240
    THEN GetParamDefinitionRe(pl)
    ELSE None

(***************************************************************************)
(* The inputs the calls are made with.                                     *)
(***************************************************************************)
\* Limit fields of a parameter definition: -10, 10, 0 as 32-bit integers,
\* and 0.5, 1.5, 1.0 as IEEE-754 single precision.
LimitBytes ==
    << << 246, 255, 255, 255,  10, 0, 0, 0,    0, 0, 0, 0 >>,
       << 0, 0, 0, 63,         0, 0, 192, 63,  0, 0, 128, 63 >> >>

\* Byte i of a payload laid out as a parameter definition: status, type_id,
\* size, attribute, three limits, then a name with a NUL after five
\* characters and further bytes behind it.
PayloadByte(tag, lim, fill, i) ==
    IF i = 1 THEN fill
    ELSE IF i = 2 THEN tag % 256
    ELSE IF i = 3 THEN tag \div 256
    ELSE IF i <= 7 THEN (i * 17) % 256
    ELSE IF i <= 19 THEN LimitBytes[lim][i - 7]
    ELSE IF i = 25 THEN 0
    ELSE 65 + ((i + fill) % 26)

MkPayload(len, tag, lim, fill) == [i \in 1..len |-> PayloadByte(tag, lim, fill, i)]

Fills == {1, 7}

Tags == 0..MaxTag \cup {260, 1032, 65535}

\* Payload lengths around every length the code compares with.
ShapeLens ==
    {0, 1, 2, 3}
      \cup { n + d : n \in {ParamDefinitionMinLen, sizeof_VersionInquiryRe,
                            sizeof_GetParamDefinition2015Re},
                     d \in {-1, 0, 1} }

\* The longest payload whose packet length fits the 10-bit length field.
MaxFittingLen == 1023 - sizeof_DJICmdV1Header - FOOTER_SIZE

\* Lengths at and past that limit: the packed length wraps to 0, 1, .. and,
\* from 1024 bytes on, to at least the size of a header and a footer.
LongLens ==
    { MaxFittingLen + d : d \in 0..MaxOver }
      \cup { 1024 + 2 * d : d \in 0..MaxOver }

\* The defaults of the command line (argparse), and a second base with every
\* field at its largest in-range value.
DefaultArgs ==
    [ sender_type |-> DEV_TYPE_PC, sender_index |-> 0,
      receiver_type |-> 0, receiver_index |-> 0, seq_num |-> 0,
      pack_type |-> 0, ack_type |-> 0, encrypt_type |-> 0,
      cmd_set |-> CMD_SET_GENERAL, cmd_id |-> 0, payload |-> << >> ]

BusyArgs ==
    [ sender_type |-> 31, sender_index |-> 7,
      receiver_type |-> 31, receiver_index |-> 7, seq_num |-> 65535,
      pack_type |-> 1, ack_type |-> 3, encrypt_type |-> 7,
      cmd_set |-> 255, cmd_id |-> 255, payload |-> MkPayload(3, 5, 1, 7) ]

Bases == {DefaultArgs, BusyArgs}

DevTypes == {0, 3, DEV_TYPE_PC} \cup 31..(31 + MaxTypeOver)

SenderArgs ==
    { [b EXCEPT !.sender_type = t, !.sender_index = k] :
        b \in Bases, t \in DevTypes, k \in 0..MaxIndex }

ReceiverArgs ==
    { [b EXCEPT !.receiver_type = t, !.receiver_index = k] :
        b \in Bases, t \in DevTypes, k \in 0..MaxIndex }

SeqArgs ==
    { [b EXCEPT !.seq_num = n] :
        b \in Bases, n \in {1, 255, 256, 4660, 65535, 65536, 65537} }

TypeArgs ==
    { [b EXCEPT !.pack_type = p, !.ack_type = k, !.encrypt_type = e] :
        b \in Bases, p \in 0..MaxPack, k \in 0..MaxAck, e \in 0..MaxEnc }

CmdArgs ==
    { [b EXCEPT !.cmd_set = c, !.cmd_id = i] :
        b \in Bases, c \in {0, 3, 31, 32, 255, 256, 259},
        i \in {0, 1, 240, 255, 256, 496} }

LengthArgs ==
    { [b EXCEPT !.payload = MkPayload(n, 2, 1, 7)] :
        b \in Bases, n \in ShapeLens \cup LongLens }

\* Routing keys: known ones, their opposite directions, unknown ones.
RoutingArgs ==
    { [DefaultArgs EXCEPT !.cmd_set = c, !.pack_type = p, !.cmd_id = i,
                          !.payload = MkPayload(n, t, 1, f)] :
        c \in {CMD_SET_GENERAL, CMD_SET_CAMERA, CMD_SET_FLYCONTROLLER},
        p \in {0, 1}, i \in {1, 11, 240, 153},
        n \in ShapeLens, t \in {2, 260}, f \in Fills }

\* Parameter definition responses of every type tag.
VariantArgs ==
    { [DefaultArgs EXCEPT !.cmd_set = CMD_SET_FLYCONTROLLER, !.pack_type = 1,
                          !.cmd_id = 240, !.payload = MkPayload(n, t, l, f)] :
        n \in { ParamDefinitionMinLen + d : d \in {0, 1, 8} }
                \cup { sizeof_GetParamDefinition2015Re + d : d \in {0, 1} },
        t \in Tags, l \in {1, 2}, f \in Fills }

ArgSpace ==
    SenderArgs \cup ReceiverArgs \cup SeqArgs \cup TypeArgs \cup CmdArgs
      \cup LengthArgs \cup RoutingArgs \cup VariantArgs

(***************************************************************************)
(* The state machine: one call of encode_command_packet, then the packet   *)
(* it returned is taken apart and its payload resolved.                    *)
(***************************************************************************)
NoHeader == HeaderFromBytes([i \in 1..sizeof_DJICmdV1Header |-> 0])

Init ==
    /\ args \in ArgSpace
    /\ pc = "start"
    /\ status = "none"
    /\ enc_data = << >>
    /\ pkthead = NoHeader
    /\ payload = << >>
    /\ known = None

Encode ==
    /\ pc = "start"
    /\ \E out \in encode_command_packet(args) :
          /\ status' = out.status
          /\ enc_data' = out.enc_data
    /\ pc' = "encoded"
    /\ UNCHANGED <<args, pkthead, payload, known>>

\* The receiving side: the header is read back from the first bytes of the
\* packet, the payload is what lies between header and footer.
GetKnownPayload ==
    /\ pc = "encoded"
    /\ status = "ok"
    /\ Len(enc_data) >= sizeof_DJICmdV1Header + FOOTER_SIZE
    /\ LET h  == HeaderFromBytes(Take(enc_data, sizeof_DJICmdV1Header))
           pl == SubSeq(enc_data, sizeof_DJICmdV1Header + 1,
                        Len(enc_data) - FOOTER_SIZE)
       IN  /\ pkthead' = h
           /\ payload' = pl
           /\ known' = get_known_payload(h, pl)
    /\ pc' = "resolved"
    /\ UNCHANGED <<args, status, enc_data>>

Next == Encode \/ GetKnownPayload

Spec == Init /\ [][Next]_vars

(***************************************************************************)
(* Properties.                                                             *)
(***************************************************************************)
\* The call returned a buffer.
Built == pc # "start" /\ status = "ok"

\* The low 10 bits of the version/length word held by the returned buffer.
StoredLength == BitAnd(enc_data[2] + 256 * enc_data[3], 1023)

\* C1, as stated: the stored totalLength of every built packet equals
\* 9 + len(payload) + 2 and equals the length of the returned buffer.
C1_LengthWithHeaderNine ==
    Built =>
        /\ Len(enc_data) >= 3
        /\ StoredLength = 9 + Len(args.payload) + 2
        /\ StoredLength = Len(enc_data)

\* C1, amended: the header is 11 bytes and the length is kept in 10 bits, so
\* the returned buffer is (11 + len(payload) + 2) mod 1024 bytes long, which
\* is 11 + len(payload) + 2 whenever that is at most 1023, and the stored
\* totalLength (when the buffer reaches the length word) equals the length
\* of the returned buffer.
C1_LengthInvariant ==
    Built =>
        /\ Len(enc_data) = (11 + Len(args.payload) + 2) % 1024
        /\ 11 + Len(args.payload) + 2 <= 1023
              => Len(enc_data) = 11 + Len(args.payload) + 2
        /\ Len(enc_data) >= 3 => StoredLength = Len(enc_data)

C1_Witness ==
    /\ pc = "encoded" /\ status = "ok"
    /\ Len(args.payload) = 179
    /\ args.cmd_id = 240
    /\ Len(enc_data) = 192
    /\ StoredLength = 192

\* Every field value is within its declared width.
InRange(a) ==
    /\ a.sender_type \in 0..31 /\ a.sender_index \in 0..7
    /\ a.receiver_type \in 0..31 /\ a.receiver_index \in 0..7
    /\ a.seq_num \in 0..65535
    /\ a.pack_type \in 0..1 /\ a.ack_type \in 0..3 /\ a.encrypt_type \in 0..7
    /\ a.cmd_set \in 0..255 /\ a.cmd_id \in 0..255

\* The fields read through the header accessors.
FieldsOf(h) ==
    [ sender_type |-> get_sender_type(h), sender_index |-> get_sender_index(h),
      receiver_type |-> get_receiver_type(h),
      receiver_index |-> get_receiver_index(h),
      seq_num |-> h.seq_num,
      pack_type |-> get_packet_type(h), ack_type |-> get_ack_type(h),
      encrypt_type |-> get_encrypt_type(h),
      cmd_set |-> h.cmd_set, cmd_id |-> h.cmd_id ]

FieldsGiven(a) ==
    [ sender_type |-> a.sender_type, sender_index |-> a.sender_index,
      receiver_type |-> a.receiver_type, receiver_index |-> a.receiver_index,
      seq_num |-> a.seq_num,
      pack_type |-> a.pack_type, ack_type |-> a.ack_type,
      encrypt_type |-> a.encrypt_type,
      cmd_set |-> a.cmd_set, cmd_id |-> a.cmd_id ]

\* C2: header round trip.  With every field within its declared width, the
\* accessors applied to the header bytes of the returned packet give back
\* exactly the values supplied.
C2_HeaderRoundTrip ==
    (Built /\ Len(enc_data) >= 11 /\ InRange(args)) =>
        FieldsOf(HeaderFromBytes(enc_data)) = FieldsGiven(args)

C2_Witness ==
    /\ pc = "encoded" /\ status = "ok"
    /\ InRange(args)
    /\ args.cmd_set = 255 /\ args.ack_type = 3 /\ args.seq_num = 65535
    /\ args.receiver_index = 5 /\ args.receiver_type = 3
    /\ get_receiver_index(HeaderFromBytes(enc_data)) = 5
    /\ HeaderFromBytes(enc_data).cmd_set = 255

\* C3: truncation law.  A call with sender_index = k + 8 (k in 0..7) has
\* exactly the outcomes of the call with sender_index = k, all else equal:
\* the same bytes, and no error on account of the out-of-range value.
C3_TruncationLaw ==
    (pc # "start" /\ args.sender_index \in 8..15) =>
        LET low == [args EXCEPT !.sender_index = @ - 8]
        IN  /\ [status |-> status, enc_data |-> enc_data]
                  \in encode_command_packet(low)
            /\ WritesInBounds(low) => status = "ok"

C3_Witness ==
    /\ pc = "encoded" /\ status = "ok"
    /\ args.sender_index = 9
    /\ args.sender_type = 31
    /\ enc_data[5] = 32 + 31
    /\ enc_data \in { o.enc_data :
                        o \in encode_command_packet([args EXCEPT !.sender_index = 1]) }

\* The header checksum as a function of the payload length alone: of the
\* start marker and the word of version 1 and the 10-bit packet length.
HeaderCrcOfLength(n) ==
    LET word == 1024 + ((11 + n + 2) % 1024)
    IN  calc_pkt55_hdr_checksum(119, << 85, word % 256, word \div 256 >>, 3)

\* C4: checksum ordering invariant.  The headerChecksum byte is the 8-bit
\* checksum of bytes 0..2 of the packet and of nothing else, so it is the
\* same for all calls with the same payload length, whatever the sender,
\* receiver, sequence, command fields and payload contents.
C4_HeaderChecksum ==
    (Built /\ Len(enc_data) >= 4) =>
        /\ enc_data[4] = calc_pkt55_hdr_checksum(119, Take(enc_data, 3), 3)
        /\ enc_data[4] = HeaderCrcOfLength(Len(args.payload))

C4_Witness ==
    /\ pc = "encoded" /\ status = "ok"
    /\ args.sender_index = 7 /\ args.receiver_type = 31 /\ args.seq_num = 65535
    /\ args.cmd_set = 255 /\ args.cmd_id = 255 /\ args.encrypt_type = 7
    /\ Len(args.payload) = 3
    /\ enc_data[4] = HeaderCrcOfLength(3)

\* C5: for every built packet of length N, the last two bytes hold,
\* little-endian, the 16-bit checksum of the first N - 2 bytes, and these
\* are the final header bytes followed by the whole payload.
C5_FooterChecksum ==
    Built =>
        LET n == Len(enc_data)
        IN  /\ n >= 2
            /\ enc_data[n - 1] + 256 * enc_data[n]
                  = calc_pkt55_checksum(enc_data, n - 2)
            /\ Take(enc_data, n - 2)
                  = StructBytes(BuildHeader(args)) \o args.payload

Resolved == pc = "resolved"

\* The routing key of the header handed to get_known_payload: command set,
\* direction (bit 7 of the commandTypeWord byte), command id.
RoutingKey == << pkthead.cmd_set, pkthead.cmd_type_data \div 128, pkthead.cmd_id >>

ParamDefinitionKey == RoutingKey = << 3, 1, 240 >>

\* The 16-bit little-endian type tag at payload offsets 1..2.
TypeTag == payload[2] + 256 * payload[3]

\* The payload right-padded with zeros to the 179 bytes of the full record.
PaddedPayload == [i \in 1..179 |-> IF i <= Len(payload) THEN payload[i] ELSE 0]

\* C6: variant resolution by type tag.  For (FLYCONTROLLER, response, 0xF0)
\* and a payload of at least 20 bytes, the result is the signed-integer
\* record exactly when the type tag is in 4..7, the floating-point record
\* exactly when it is 8 or 9, the unsigned-integer record for every other
\* tag, each parsed from the payload right-padded with zeros.
C6_VariantByTypeTag ==
    (Resolved /\ ParamDefinitionKey /\ Len(payload) >= 20) =>
        /\ known.kind = "DJIPayload_FlyController_GetParamDefinitionI2015Re"
              <=> TypeTag \in 4..7
        /\ known.kind = "DJIPayload_FlyController_GetParamDefinitionF2015Re"
              <=> TypeTag \in 8..9
        /\ known.kind = "DJIPayload_FlyController_GetParamDefinitionU2015Re"
              <=> TypeTag \notin 4..9
        /\ known =
             IF TypeTag \in 4..7
             THEN DJIPayload_FlyController_GetParamDefinitionI2015Re(PaddedPayload)
             ELSE IF TypeTag \in 8..9
             THEN DJIPayload_FlyController_GetParamDefinitionF2015Re(PaddedPayload)
             ELSE DJIPayload_FlyController_GetParamDefinitionU2015Re(PaddedPayload)
        /\ known.type_id = TypeTag
        /\ known.status = payload[1]
        /\ SubSeq(payload, 8, 19) = LimitBytes[1] =>
              IF TypeTag \in 4..7
              THEN known.limit_min = -10 /\ known.limit_max = 10
                                         /\ known.limit_def = 0
              ELSE IF TypeTag \in 8..9
              THEN known.limit_min = [sign |-> 1, exponent |-> 255,
                                      fraction |-> 8388598]
              ELSE known.limit_min = [hi |-> 65535, lo |-> 65526]

\* Type tag 8 with limits 0.5, 1.5, 1.0 resolves to the floating-point
\* record with these values (0.5 = 2^-1, 1.5 = 1.1b * 2^0, 1.0 = 2^0).
C6_Witness ==
    /\ Resolved /\ ParamDefinitionKey
    /\ Len(payload) = 20
    /\ TypeTag = 8
    /\ known.kind = "DJIPayload_FlyController_GetParamDefinitionF2015Re"
    /\ known.limit_min = [sign |-> 0, exponent |-> 126, fraction |-> 0]
    /\ known.limit_max = [sign |-> 0, exponent |-> 127, fraction |-> 4194304]
    /\ known.limit_def = [sign |-> 0, exponent |-> 127, fraction |-> 0]
    /\ Len(known.name) = 1

\* C7: length gating of the variable-shape entry.  For (FLYCONTROLLER,
\* response, 0xF0) a payload of 1..19 bytes resolves to the end-of-list
\* record holding the first payload byte, a payload of 20 bytes or more
\* never does, and an empty payload resolves to None.
C7_LengthGating ==
    (Resolved /\ ParamDefinitionKey) =>
        /\ Len(payload) = 0 => known = None
        /\ Len(payload) \in 1..19 =>
              known = [ kind |-> "DJIPayload_FlyController_GetParamDefinitionEOL2015Re",
                        status |-> payload[1] ]
        /\ Len(payload) >= 20 =>
              known.kind \in
                { "DJIPayload_FlyController_GetParamDefinitionU2015Re",
                  "DJIPayload_FlyController_GetParamDefinitionI2015Re",
                  "DJIPayload_FlyController_GetParamDefinitionF2015Re" }

C7_Witness ==
    /\ Resolved /\ ParamDefinitionKey
    /\ Len(payload) = 19
    /\ known.kind = "DJIPayload_FlyController_GetParamDefinitionEOL2015Re"
    /\ known.status = 7

\* What get_known_payload returns for a routing key with no catalog entry.
UnrecognizedCommand ==
    get_known_payload(
        [pkthead EXCEPT !.cmd_set = 2, !.cmd_type_data = 128, !.cmd_id = 153],
        << >>)

\* C8: the result for a known routing key whose payload is too short for
\* every variant of the key differs from the result for a routing key
\* with no catalog entry.
C8_NoMatchDistinguishable ==
    (Resolved /\ ParamDefinitionKey /\ Len(payload) = 0) =>
        known # UnrecognizedCommand

\* The static entries: routing key, record kind, declared size.
StaticEntries ==
    { [key |-> << 0, 1, 1 >>, size |-> 31,
       kind |-> "DJIPayload_General_VersionInquiryRe"],
      [key |-> << 0, 1, 11 >>, size |-> 1,
       kind |-> "DJIPayload_General_ChipRebootRe"],
      [key |-> << 3, 0, 240 >>, size |-> 2,
       kind |-> "DJIPayload_FlyController_GetParamDefinition2015Rq"] }

\* The record of a static entry parsed from the bytes b.
StaticRecord(e, b) ==
    IF e.size = 31 THEN DJIPayload_General_VersionInquiryRe(b)
    ELSE IF e.size = 1 THEN DJIPayload_General_ChipRebootRe(b)
    ELSE DJIPayload_FlyController_GetParamDefinition2015Rq(b)

OppositeKey(k) == << k[1], 1 - k[2], k[3] >>

\* C9: static entries are minimum-length gated and direction-sensitive.
\* For each of the three keys the entry's record is returned if and only
\* if the payload has at least the declared size, it is the record of the
\* first declared-size bytes alone, and the same command set and id with
\* the opposite direction never resolves to that record.
C9_StaticEntries ==
    Resolved =>
        \A e \in StaticEntries :
            /\ RoutingKey = e.key =>
                  /\ known.kind = e.kind <=> Len(payload) >= e.size
                  /\ Len(payload) >= e.size =>
                        known = StaticRecord(e, Take(payload, e.size))
                  /\ Len(payload) < e.size => known = None
            /\ RoutingKey = OppositeKey(e.key) => known.kind # e.kind
            /\ RoutingKey # e.key => known.kind # e.kind

C9_Witness ==
    /\ Resolved
    /\ RoutingKey = << 0, 1, 1 >>
    /\ Len(payload) = 32
    /\ known.kind = "DJIPayload_General_VersionInquiryRe"
    /\ known.unknown0 = payload[1]
    /\ known.unknown1E = payload[31]
    /\ Len(known.hw_version) = 10

\* C10: in every packet the reserved bits 4..3 of the commandTypeWord byte
\* (offset 8) are zero, the byte is made of direction mod 2 in bit 7, ack
\* mod 4 in bits 6..5 and encryption mod 8 in bits 2..0, and each of the
\* three setters, applied to it with any value, leaves the bits of the
\* other two sub-fields and the reserved bits as they are.
C10_CommandTypeWord ==
    (Built /\ Len(enc_data) >= 9) =>
        /\ (enc_data[9] \div 8) % 4 = 0
        /\ enc_data[9] \div 128 = args.pack_type % 2
        /\ (enc_data[9] \div 32) % 4 = args.ack_type % 4
        /\ enc_data[9] % 8 = args.encrypt_type % 8
        /\ LET h == [NoHeader EXCEPT !.cmd_type_data = enc_data[9]]
               b == enc_data[9]
           IN  \A v \in 0..MaxEnc :
                  /\ set_packet_type(h, v).cmd_type_data % 128 = b % 128
                  /\ set_ack_type(h, v).cmd_type_data % 32 = b % 32
                  /\ set_ack_type(h, v).cmd_type_data \div 128 = b \div 128
                  /\ set_encrypt_type(h, v).cmd_type_data \div 8 = b \div 8

C10_Witness ==
    /\ pc = "encoded" /\ status = "ok"
    /\ args.pack_type = 3 /\ args.ack_type = 4 /\ args.encrypt_type = 9
    /\ enc_data[9] = 128 + 1

\* The high 6 bits of the version/length word held by the returned buffer.
StoredVersion == (enc_data[2] + 256 * enc_data[3]) \div 1024

\* C11: length overflow is confined to the length bits.  For every payload
\* length, also when 11 + len(payload) + 2 exceeds 1023, the call ends
\* without an error, the low 10 bits of the version/length word of the
\* packet equal (11 + len(payload) + 2) mod 1024 and its high 6 bits hold
\* protocol version 1.
C11_OverflowConfined ==
    pc # "start" =>
        /\ status = "ok"
        /\ Len(enc_data) >= 3
        /\ StoredLength = (11 + Len(args.payload) + 2) % 1024
        /\ StoredVersion = 1

====
